---- MODULE Spec2Model ----
(***************************************************************************)
(* Model of streamlit_app.py: the offshore pipeline dashboard.             *)
(*                                                                         *)
(*   SpecFilter  create_filter_sidebar: the per-column filter controls,    *)
(*               the Select All / Clear All buttons and the filter pass.   *)
(*                                                                         *)
(*   SpecStore   load_pipeline_data, save_pipeline_data,                   *)
(*               add_new_pipeline_row and the script main() that calls     *)
(*               them on an upload, on the Add Row form and on a rerun.    *)
(*                                                                         *)
(* A table is a record [columns, rows]: a row is a sequence of cells, one  *)
(* per column.  A cell is <<>> when the value is missing (NaN / NaT) and   *)
(* <<"str", s>>, <<"num", n>> or <<"day", d>> otherwise.  A column name is *)
(* a sequence of tokens (words and separators).                            *)
(***************************************************************************)
EXTENDS Integers, Sequences, FiniteSets, TLC

VARIABLES
    df,            \* the table handed to create_filter_sidebar
    filter_style,  \* st.session_state["filter_style"]
    ss_filter,     \* st.session_state["filter_<col>"], by column name
    ss_slider,     \* st.session_state["slider_<col>"], by column name
    ss_date,       \* st.session_state["date_<col>"], by column name
    filtered_df,   \* rows returned by the last create_filter_sidebar
    controls,      \* control rendered for each column in the last pass
    last,          \* the interaction that caused the last pass
    pipeline_data, \* st.session_state.pipeline_data: <<>> or <<table>>
    csv_file,      \* data/pipeline_data.csv: <<>> or <<file>>
    sample_file,   \* data/sample_pipeline_data.csv: <<>> or <<file>>
    uploaded_file, \* the value of the file uploader: <<>> or <<file>>
    submitted,     \* the form of a clicked "Add Row": <<>> or <<form>>
    pc,            \* "run": the script is to run; "rerun": st.rerun() was
                   \* called; "idle": the script ran to its end
    expect,        \* the table in memory when a save last failed: <<>> or <<table>>
    op,            \* what the last run of the script did
    interactions   \* the number of user interactions so far

filterVars == <<df, filter_style, ss_filter, ss_slider, ss_date, filtered_df,
                controls, last>>

storeVars == <<pipeline_data, csv_file, sample_file, uploaded_file, submitted,
               pc, expect, op, interactions>>

vars == <<df, filter_style, ss_filter, ss_slider, ss_date, filtered_df,
          controls, last, pipeline_data, csv_file, sample_file, uploaded_file,
          submitted, pc, expect, op, interactions>>

(***************************************************************************)
(* Bounds                                                                  *)
(***************************************************************************)
MaxRows == 2

\* user interactions followed in one session of the dataset store
MaxInteractions == 2

(***************************************************************************)
(* Values                                                                  *)
(***************************************************************************)
NaN == <<>>

IsNA(cell) == cell = <<>>

Country == <<"Country">>

PipeOD == <<"Pipe", " ", "OD">>

InstallationDate == <<"Installation", " ", "Date">>

FilterColumnNames == {Country, PipeOD, InstallationDate}

\* tokens whose lower-cased text contains 'date'
DateTokens == {"Date"}

\* 'date' in column.lower()
HasDateName(name) == \E i \in 1..Len(name) : name[i] \in DateTokens

\* present cells carry the kind of their value
Str(text) == <<"str", text>>

Num(number) == <<"num", number>>

Day(day) == <<"day", day>>

ValueOf(cell) == cell[2]

TextCells == {Str("A"), Str("B"), NaN}

NumberCells == {Num(10), Num(20), NaN}

\* a datetime64 cell holds a day number
DayCells == {Day(1), Day(2), NaN}

\* the text of a date column read from a CSV file
DateTextCells == {Str("2024-01-01"), Str("tbd"), NaN}

\* texts pd.to_datetime accepts
DateTexts == {"2024-01-01"}

Present(cells) == cells \ {NaN}

Column(name, dtype) == [name |-> name, dtype |-> dtype]

\* a spreadsheet with a text, a number and a datetime column
MixedColumns ==
    <<Column(Country, "object"), Column(PipeOD, "float64"),
      Column(InstallationDate, "datetime64")>>

MixedCells == <<Present(TextCells), Present(NumberCells), Present(DayCells)>>

\* the columns of the spec's scenario, with missing values
NumberColumns == <<Column(Country, "object"), Column(PipeOD, "float64")>>

NumberColumnsCells == <<TextCells, NumberCells>>

\* a spreadsheet with a number and a datetime column, with missing values
DateColumns ==
    <<Column(PipeOD, "float64"), Column(InstallationDate, "datetime64")>>

DateColumnsCells == <<NumberCells, DayCells>>

\* a CSV file: read_csv leaves the date column as text
TextColumns ==
    <<Column(Country, "object"), Column(InstallationDate, "object")>>

TextColumnsCells == <<TextCells, DateTextCells>>

\* the rows over the given cells, from column i on
RECURSIVE RowsFrom(_, _)
RowsFrom(cells, i) ==
    IF i > Len(cells) THEN {<<>>}
    ELSE {<<cell>> \o rest : cell \in cells[i], rest \in RowsFrom(cells, i + 1)}

Frames(cells) ==
    UNION {[1..n -> RowsFrom(cells, 1)] : n \in 1..MaxRows}

\* the tables create_filter_sidebar is called with (main calls it only for
\* a table that is not empty)
TablesOf(columns, cells) ==
    {[columns |-> columns, rows |-> r] : r \in Frames(cells)}

SetMin(S) == CHOOSE x \in S : \A y \in S : x <= y

SetMax(S) == CHOOSE x \in S : \A y \in S : x >= y

(***************************************************************************)
(* create_filter_sidebar                                                   *)
(***************************************************************************)
\* df[column].dropna().unique()
Unique(rows, i) ==
    {ValueOf(rows[k][i]) : k \in {j \in 1..Len(rows) : ~IsNA(rows[j][i])}}

\* frame[frame[column].isin(selected_values)]
Isin(frame, i, selected_values) ==
    SelectSeq(frame, LAMBDA r : ~IsNA(r[i]) /\ ValueOf(r[i]) \in selected_values)

\* frame[(frame[column] >= low) & (frame[column] <= high)]
Between(frame, i, low, high) ==
    SelectSeq(frame, LAMBDA r : ~IsNA(r[i]) /\ ValueOf(r[i]) >= low
                                  /\ ValueOf(r[i]) <= high)

\* pd.api.types.is_numeric_dtype
IsNumericDtype(dtype) == dtype \in {"float64", "int64", "bool"}

\* a pass in which each column's filter starts again from df
NarrowedFromDf(filtered, rows) == rows

\* the frame a column's filter narrows: filtered_df, not df
Narrowed(filtered, rows) == filtered

\* the value a keyed range widget returns: its session value, else its default
WidgetValue(state, default) == IF state = <<>> THEN default ELSE state

\* the body of the loop over df.columns for column i; acc is the loop's state
FilterColumn(table, i, acc, style, ticks) ==
    LET col == table.columns[i]
        name == col.name
        frame == Narrowed(acc.filtered, table.rows)
    IN
    IF col.dtype = "object" THEN
        LET unique_values == Unique(table.rows, i)
            selected_values ==
                IF style = "Multiselect" THEN acc.ss_filter[name]
                ELSE ticks[name] \cap unique_values
        IN
        IF unique_values # {} THEN
            [acc EXCEPT
                !.filtered = IF selected_values # {}
                             THEN Isin(frame, i, selected_values)
                             ELSE acc.filtered,
                !.ss_filter = IF style = "Checkboxes"
                              THEN [acc.ss_filter EXCEPT ![name] = selected_values]
                              ELSE acc.ss_filter,
                !.controls = [acc.controls EXCEPT ![name] = style]]
        ELSE acc
    ELSE IF IsNumericDtype(col.dtype) THEN
        LET present == Unique(table.rows, i) IN
        IF present # {} /\ SetMin(present) # SetMax(present) THEN
            LET selected_range ==
                    WidgetValue(acc.ss_slider[name],
                                <<SetMin(present), SetMax(present)>>)
            IN
            [acc EXCEPT
                !.filtered = Between(frame, i, selected_range[1], selected_range[2]),
                !.ss_slider = [acc.ss_slider EXCEPT ![name] = selected_range],
                !.controls = [acc.controls EXCEPT ![name] = "slider"]]
        ELSE acc
    ELSE IF HasDateName(name) THEN
        LET valid_dates == Unique(table.rows, i) IN
        IF valid_dates # {} THEN
            LET selected_date_range ==
                    WidgetValue(acc.ss_date[name],
                                <<SetMin(valid_dates), SetMax(valid_dates)>>)
            IN
            [acc EXCEPT
                !.filtered = IF Len(selected_date_range) = 2
                             THEN Between(frame, i, selected_date_range[1],
                                          selected_date_range[2])
                             ELSE acc.filtered,
                !.ss_date = [acc.ss_date EXCEPT ![name] = selected_date_range],
                !.controls = [acc.controls EXCEPT ![name] = "date_input"]]
        ELSE acc
    ELSE acc

RECURSIVE FilterColumns(_, _, _, _, _)
FilterColumns(table, i, acc, style, ticks) ==
    IF i > Len(table.columns) THEN acc
    ELSE FilterColumns(table, i + 1, FilterColumn(table, i, acc, style, ticks),
                       style, ticks)

NoControls == [n \in FilterColumnNames |-> "none"]

\* one run of create_filter_sidebar after the two buttons: filtered_df = df.copy()
\* and the loop over the columns.  ticks are the values of the checkboxes.
create_filter_sidebar(table, style, filters, ticks, sliders, dates) ==
    FilterColumns(table, 1,
                  [filtered |-> table.rows, ss_filter |-> filters,
                   ss_slider |-> sliders, ss_date |-> dates,
                   controls |-> NoControls],
                  style, ticks)

NoFilters == [n \in FilterColumnNames |-> {}]

NoRanges == [n \in FilterColumnNames |-> <<>>]

ColumnIndex(table, name) ==
    CHOOSE i \in 1..Len(table.columns) : table.columns[i].name = name

HasColumn(table, name) ==
    \E i \in 1..Len(table.columns) : table.columns[i].name = name

ObjectColumns(table) ==
    {table.columns[i].name : i \in {j \in 1..Len(table.columns) :
                                        table.columns[j].dtype = "object"}}

\* the script runs again and the pass's results become the state
Rerun(style, filters, ticks, sliders, dates, how) ==
    \E r \in {create_filter_sidebar(df, style, filters, ticks, sliders, dates)} :
        /\ filter_style' = style
        /\ ss_filter' = r.ss_filter
        /\ ss_slider' = r.ss_slider
        /\ ss_date' = r.ss_date
        /\ filtered_df' = r.filtered
        /\ controls' = r.controls
        /\ last' = how
        /\ UNCHANGED <<df, storeVars>>

\* the dataset store as the filter pass leaves it
StoreAtRest ==
    /\ pipeline_data = <<>>
    /\ csv_file = <<>>
    /\ sample_file = <<>>
    /\ uploaded_file = <<>>
    /\ submitted = <<>>
    /\ pc = "idle"
    /\ expect = <<>>
    /\ op = <<>>
    /\ interactions = 0

FirstRun(table) ==
    create_filter_sidebar(table, "Multiselect", NoFilters, NoFilters,
                          NoRanges, NoRanges)

InitFilter ==
    /\ \/ df \in TablesOf(MixedColumns, MixedCells)
       \/ df \in TablesOf(NumberColumns, NumberColumnsCells)
       \/ df \in TablesOf(DateColumns, DateColumnsCells)
       \/ df \in TablesOf(TextColumns, TextColumnsCells)
    /\ filter_style = "Multiselect"
    /\ ss_filter = FirstRun(df).ss_filter
    /\ ss_slider = FirstRun(df).ss_slider
    /\ ss_date = FirstRun(df).ss_date
    /\ filtered_df = FirstRun(df).filtered
    /\ controls = FirstRun(df).controls
    /\ last = "first_run"
    /\ StoreAtRest

\* the user changes the chosen values of a multiselect
PickMultiselect ==
    \E name \in FilterColumnNames :
        /\ controls[name] = "Multiselect"
        /\ \E chosen \in SUBSET Unique(df.rows, ColumnIndex(df, name)) :
               Rerun(filter_style, [ss_filter EXCEPT ![name] = chosen],
                     ss_filter, ss_slider, ss_date, "widget")

\* the user ticks or unticks one checkbox
ToggleCheckbox ==
    \E name \in FilterColumnNames :
        /\ controls[name] = "Checkboxes"
        /\ \E value \in Unique(df.rows, ColumnIndex(df, name)) :
               LET ticked == IF value \in ss_filter[name]
                             THEN ss_filter[name] \ {value}
                             ELSE ss_filter[name] \cup {value}
               IN Rerun(filter_style, ss_filter,
                        [ss_filter EXCEPT ![name] = ticked],
                        ss_slider, ss_date, "widget")

\* the user moves a slider's handles
MoveSlider ==
    \E name \in FilterColumnNames :
        /\ controls[name] = "slider"
        /\ LET present == Unique(df.rows, ColumnIndex(df, name)) IN
           \E low \in present, high \in present :
               /\ low <= high
               /\ Rerun(filter_style, ss_filter, ss_filter,
                        [ss_slider EXCEPT ![name] = <<low, high>>],
                        ss_date, "widget")

\* the user picks a start date, or a start and an end date
PickDates ==
    \E name \in FilterColumnNames :
        /\ controls[name] = "date_input"
        /\ LET valid_dates == Unique(df.rows, ColumnIndex(df, name)) IN
           \E start \in valid_dates, end \in valid_dates :
               /\ start <= end
               /\ \E picked \in {<<start>>, <<start, end>>} :
                      Rerun(filter_style, ss_filter, ss_filter, ss_slider,
                            [ss_date EXCEPT ![name] = picked], "widget")

\* the radio "Filter Style"
SetFilterStyle ==
    \E style \in {"Multiselect", "Checkboxes"} :
        /\ style # filter_style
        /\ Rerun(style, ss_filter, ss_filter, ss_slider, ss_date, "widget")

\* the session entries "Select All" writes
SelectAllUpdate(table, filters) ==
    [n \in FilterColumnNames |->
        IF n \in ObjectColumns(table)
        THEN Unique(table.rows, ColumnIndex(table, n))
        ELSE filters[n]]

\* the session entries "Clear All" leaves
ClearAllUpdate(table, filters) ==
    [n \in FilterColumnNames |->
        IF HasColumn(table, n) THEN {} ELSE filters[n]]

\* the values the checkboxes take in the run after a button rewrote
\* filter_<col>: a checkbox that keeps its identity keeps its tick, one whose
\* identity follows its value argument starts again from that argument
TicksAfterButton(filters) == {ss_filter, filters}

SelectAll ==
    LET filters == SelectAllUpdate(df, ss_filter) IN
    \E ticks \in TicksAfterButton(filters) :
        Rerun(filter_style, filters, ticks, ss_slider, ss_date, "select_all")

ClearAll ==
    LET filters == ClearAllUpdate(df, ss_filter) IN
    \E ticks \in TicksAfterButton(filters) :
        Rerun(filter_style, filters, ticks, ss_slider, ss_date, "clear_all")

NextFilter ==
    \/ PickMultiselect
    \/ ToggleCheckbox
    \/ MoveSlider
    \/ PickDates
    \/ SetFilterStyle
    \/ SelectAll
    \/ ClearAll

SpecFilter == InitFilter /\ [][NextFilter]_vars

(***************************************************************************)
(* Dataset store: load_pipeline_data, save_pipeline_data,                  *)
(* add_new_pipeline_row and the upload and "Add New Row" parts of main.    *)
(* A stored table is [columns |-> names, rows |-> rows]; a CSV file is     *)
(* [lines |-> header line followed by the rows' fields, torn |-> whether   *)
(* the write that left it failed part way].                                *)
(***************************************************************************)
Frame(columns, rows) == [columns |-> columns, rows |-> rows]

\* pd.DataFrame()
EmptyFrame == Frame(<<>>, <<>>)

\* the columns of load_pipeline_data's empty table
DefaultColumns ==
    <<Country, <<"Project">>, <<"Vessel">>, <<"Pipe", " ", "Type">>,
      <<"Line", " ", "Type">>, PipeOD,
      <<"Pipe", " ", "Wall", " ", "Thickness">>,
      <<"Coating", " ", "Thickness">>, <<"Steel", " ", "Density">>,
      <<"Coating", " ", "Density">>, <<"Clad", " ", "Thickness">>,
      <<"Vessel", " ", "Name">>, <<"Water", " ", "Depth">>,
      <<"Estimated", " ", "Optimal", " ", "JLT", " ", "Angle">>,
      <<"JLT", " ", "Angle">>, InstallationDate>>

\* DataFrame.empty
IsEmpty(frame) == Len(frame.rows) = 0 \/ Len(frame.columns) = 0

Whitespace == {" ", "\n"}

\* col.replace('\n', ' ')
ReplaceNewlines(name) ==
    [i \in 1..Len(name) |-> IF name[i] = "\n" THEN " " ELSE name[i]]

RECURSIVE LStrip(_)
LStrip(name) ==
    IF name # <<>> /\ Head(name) \in Whitespace THEN LStrip(Tail(name)) ELSE name

RECURSIVE RStrip(_)
RStrip(name) ==
    IF name # <<>> /\ name[Len(name)] \in Whitespace
    THEN RStrip(SubSeq(name, 1, Len(name) - 1))
    ELSE name

\* col.replace('\n', ' ').strip()
CleanName(name) == RStrip(LStrip(ReplaceNewlines(name)))

\* df.columns = [col.replace('\n', ' ').strip() for col in df.columns]
CleanColumns(frame) ==
    Frame([i \in 1..Len(frame.columns) |-> CleanName(frame.columns[i])],
          frame.rows)

\* the text to_csv writes for a cell: nothing for a missing value, the ISO
\* text for a date
WriteField(cell) ==
    IF IsNA(cell) THEN Str("")
    ELSE IF cell[1] = "day" THEN Str("2024-01-01")
    ELSE cell

\* the cell read_csv makes of a field: an empty field is a missing value
ReadField(field) ==
    IF field[1] = "str" /\ field[2] = "" THEN NaN ELSE field

\* df.to_csv(path, index=False), written to its end
to_csv(frame) ==
    [lines |-> <<frame.columns>> \o
               [k \in 1..Len(frame.rows) |->
                   [i \in 1..Len(frame.columns) |-> WriteField(frame.rows[k][i])]],
     torn |-> FALSE]

\* read_csv's names for a header: a repeated name gets the suffix .N
MangleDupes(names) ==
    [i \in 1..Len(names) |->
        LET seen == Cardinality({j \in 1..(i - 1) : names[j] = names[i]}) IN
        IF seen = 0 THEN names[i] ELSE names[i] \o <<".", ToString(seen)>>]

\* pd.read_csv raises EmptyDataError on a file without a header line
CanParse(file) == Len(file.lines) > 0

\* pd.read_csv(path)
read_csv(file) ==
    Frame(MangleDupes(file.lines[1]),
          [k \in 1..(Len(file.lines) - 1) |->
              [i \in 1..Len(file.lines[k + 1]) |-> ReadField(file.lines[k + 1][i])]])

\* load_pipeline_data: the table returned, the session entry afterwards,
\* whether the except branch ran, and where the table came from
load_pipeline_data(session, csv, sample) ==
    IF session # <<>> /\ ~IsEmpty(session[1]) THEN
        [df |-> session[1], session |-> session, error |-> FALSE,
         source |-> "session"]
    ELSE IF csv # <<>> THEN
        IF CanParse(csv[1]) THEN
            [df |-> read_csv(csv[1]), session |-> <<read_csv(csv[1])>>,
             error |-> FALSE, source |-> "csv"]
        ELSE
            [df |-> EmptyFrame, session |-> session, error |-> TRUE,
             source |-> "csv"]
    ELSE IF sample # <<>> THEN
        IF CanParse(sample[1]) THEN
            [df |-> CleanColumns(read_csv(sample[1])),
             session |-> <<CleanColumns(read_csv(sample[1]))>>,
             error |-> FALSE, source |-> "sample"]
        ELSE
            [df |-> EmptyFrame, session |-> session, error |-> TRUE,
             source |-> "sample"]
    ELSE
        [df |-> Frame(DefaultColumns, <<>>),
         session |-> <<Frame(DefaultColumns, <<>>)>>,
         error |-> FALSE, source |-> "default"]

\* how df.to_csv ends: written to its end, or an exception before the file
\* is opened ("unopened"), right after it is opened ("empty"), or before the
\* last line is written ("partial")
WriteOutcomes == {"ok", "unopened", "empty", "partial"}

\* the file a failed write leaves
Truncated(file, outcome) ==
    [lines |-> IF outcome = "empty" THEN <<>>
               ELSE SubSeq(file.lines, 1, Len(file.lines) - 1),
     torn |-> TRUE]

\* save_pipeline_data: its result, the session entry and the file afterwards
save_pipeline_data(frame, session, csv, outcome) ==
    IF outcome = "ok" THEN
        [ok |-> TRUE, session |-> <<frame>>, csv |-> <<to_csv(frame)>>]
    ELSE
        [ok |-> FALSE, session |-> session,
         csv |-> IF outcome = "unopened" THEN csv
                 ELSE <<Truncated(to_csv(frame), outcome)>>]

\* a number_input with min_value=0.0: stored when positive, else ''
PositiveOrBlank(x) == IF x > 0 THEN Num(x) ELSE Str("")

\* an angle stored only when positive, as the other numeric fields are
PositiveAngleOrBlank(x) == IF x > 0 THEN Num(x) ELSE Str("")

\* a number_input without a minimum: stored unless zero, else ''
NonZeroOrBlank(x) == IF x # 0 THEN Num(x) ELSE Str("")

PositiveFields ==
    {"pipe_od", "pipe_wall", "coating_thickness", "steel_density",
     "coating_density", "clad_thickness", "water_depth"}

AngleFields == {"estimated_angle", "jlt_angle"}

\* the value stored for a numeric field of the form
StoredNumber(field, x) ==
    IF field \in PositiveFields THEN PositiveOrBlank(x) ELSE NonZeroOrBlank(x)

\* if country and project
Accepted(form) == form.country # "" /\ form.project # ""

\* new_data, in the order of the dict
new_data(form) ==
    <<<<Country, Str(form.country)>>,
      <<DefaultColumns[2], Str(form.project)>>,
      <<DefaultColumns[3], Str("")>>,
      <<DefaultColumns[4], Str("")>>,
      <<DefaultColumns[5], Str("")>>,
      <<DefaultColumns[6], StoredNumber("pipe_od", form.pipe_od)>>,
      <<DefaultColumns[7], StoredNumber("pipe_wall", form.pipe_wall)>>,
      <<DefaultColumns[8], StoredNumber("coating_thickness", form.coating_thickness)>>,
      <<DefaultColumns[9], StoredNumber("steel_density", form.steel_density)>>,
      <<DefaultColumns[10], StoredNumber("coating_density", form.coating_density)>>,
      <<DefaultColumns[11], StoredNumber("clad_thickness", form.clad_thickness)>>,
      <<DefaultColumns[12], Str("")>>,
      <<DefaultColumns[13], StoredNumber("water_depth", form.water_depth)>>,
      <<DefaultColumns[14], StoredNumber("estimated_angle", form.estimated_angle)>>,
      <<DefaultColumns[15], StoredNumber("jlt_angle", form.jlt_angle)>>,
      <<InstallationDate, Day(1)>>>>

HasDuplicates(columns) ==
    \E i \in 1..Len(columns), j \in 1..Len(columns) :
        i < j /\ columns[i] = columns[j]

\* the value of a dict for a column, missing when the dict lacks the column
ValueFor(data, name) ==
    IF \E j \in 1..Len(data) : data[j][1] = name
    THEN data[CHOOSE j \in 1..Len(data) : data[j][1] = name][2]
    ELSE NaN

\* pd.concat([df, pd.DataFrame([data])], ignore_index=True) for a table
\* whose column names are distinct
concat(frame, data) ==
    LET columns ==
            frame.columns \o
            SelectSeq([j \in 1..Len(data) |-> data[j][1]],
                      LAMBDA n : \A i \in 1..Len(frame.columns) :
                                     frame.columns[i] # n)
        old == [k \in 1..Len(frame.rows) |->
                   [i \in 1..Len(columns) |->
                       IF i <= Len(frame.columns) THEN frame.rows[k][i] ELSE NaN]]
        new == [i \in 1..Len(columns) |-> ValueFor(data, columns[i])]
    IN Frame(columns, Append(old, new))

\* the table pandas parses from an uploaded file (read_csv or read_excel)
Parse(file) == file.frame

\* main's upload block (lines 225-241): status, session entry, file, messages
UploadBlock(upload, session, csv, outcome) ==
    IF upload = <<>> THEN
        [status |-> "none", session |-> session, csv |-> csv,
         replaced |-> <<>>, messages |-> {}]
    ELSE IF ~upload[1].readable THEN
        [status |-> "unreadable", session |-> session, csv |-> csv,
         replaced |-> <<>>, messages |-> {"Error processing file"}]
    ELSE
        LET new_df == CleanColumns(Parse(upload[1]))
            saved == save_pipeline_data(new_df, session, csv, outcome)
        IN
        IF saved.ok THEN
            [status |-> "saved", session |-> saved.session, csv |-> saved.csv,
             replaced |-> <<new_df>>,
             messages |-> {"Data uploaded successfully!"}]
        ELSE
            [status |-> "failed", session |-> saved.session, csv |-> saved.csv,
             replaced |-> <<>>,
             messages |-> {"Error saving data", "Failed to save uploaded data."}]

\* the form's submit handler (lines 266-288) with add_new_pipeline_row
FormBlock(form, session, csv, sample, outcome) ==
    IF form = <<>> THEN
        [status |-> "none", session |-> session, csv |-> csv, messages |-> {}]
    ELSE IF ~Accepted(form[1]) THEN
        [status |-> "rejected", session |-> session, csv |-> csv,
         messages |-> {"Country and Project are required fields."}]
    ELSE
        LET loaded == load_pipeline_data(session, csv, sample) IN
        IF HasDuplicates(loaded.df.columns) THEN
            \* pd.concat raises InvalidIndexError, which nothing catches
            [status |-> "raised", session |-> loaded.session, csv |-> csv,
             messages |-> {"InvalidIndexError"}]
        ELSE
            LET saved == save_pipeline_data(concat(loaded.df, new_data(form[1])),
                                            loaded.session, csv, outcome)
            IN
            IF saved.ok THEN
                [status |-> "saved", session |-> saved.session, csv |-> saved.csv,
                 messages |-> {"New record added successfully!"}]
            ELSE
                [status |-> "failed", session |-> saved.session, csv |-> saved.csv,
                 messages |-> {"Error saving data", "Failed to save new record."}]

NoOp ==
    [df |-> EmptyFrame, source |-> "none", load_error |-> FALSE,
     upload |-> "none", add |-> "none", at_upload |-> <<>>, at_form |-> <<>>,
     form_csv |-> <<>>, form |-> <<>>, rendered |-> "none", expected |-> <<>>,
     after_replace |-> <<>>, replaced |-> <<>>, messages |-> {}]

\* one run of main: from load_pipeline_data (line 212) to st.rerun() or to the
\* end of the main content area
main(session, csv, sample, upload, form, expected, previous, o1, o2) ==
    LET loaded == load_pipeline_data(session, csv, sample)
        up == UploadBlock(upload, loaded.session, csv, o1)
        add == IF up.status = "saved"
               THEN [status |-> "none", session |-> up.session, csv |-> up.csv,
                     messages |-> {}]
               ELSE FormBlock(form, up.session, up.csv, sample, o2)
        rerun == up.status = "saved" \/ add.status = "saved"
        failed == up.status = "failed" \/ add.status = "failed"
    IN
    [session |-> add.session,
     csv |-> add.csv,
     pc |-> IF rerun THEN "rerun" ELSE "idle",
     expect |-> IF rerun THEN <<>>
                ELSE IF add.status = "failed" THEN up.session
                ELSE IF up.status = "failed" THEN loaded.session
                ELSE expected,
     op |-> [df |-> loaded.df,
             source |-> loaded.source,
             load_error |-> loaded.error,
             upload |-> up.status,
             add |-> add.status,
             at_upload |-> loaded.session,
             at_form |-> up.session,
             form_csv |-> up.csv,
             form |-> IF up.status = "saved" THEN <<>> ELSE form,
             rendered |-> IF rerun \/ add.status = "raised" THEN "none"
                          ELSE IF IsEmpty(loaded.df) THEN "welcome"
                          ELSE "dashboard",
             expected |-> expected,
             after_replace |-> previous.replaced,
             replaced |-> up.replaced,
             messages |-> (IF loaded.error THEN {"Error loading data"} ELSE {})
                          \cup up.messages \cup add.messages]]

\* the outcomes of the upload block's write, if it writes
UploadWrites(upload) ==
    IF upload # <<>> /\ upload[1].readable THEN WriteOutcomes ELSE {"ok"}

\* the outcomes of add_new_pipeline_row's write, if it is reached
FormWrites(upload, form, o1) ==
    IF form # <<>> /\ Accepted(form[1])
       /\ ~(upload # <<>> /\ upload[1].readable /\ o1 = "ok")
    THEN WriteOutcomes ELSE {"ok"}

\* the script runs
RunScript ==
    /\ pc = "run"
    /\ \E o1 \in UploadWrites(uploaded_file) :
       \E o2 \in FormWrites(uploaded_file, submitted, o1) :
       \E r \in {main(pipeline_data, csv_file, sample_file, uploaded_file,
                      submitted, expect, op, o1, o2)} :
           /\ pipeline_data' = r.session
           /\ csv_file' = r.csv
           /\ pc' = r.pc
           /\ expect' = r.expect
           /\ op' = r.op
           /\ submitted' = <<>>
           /\ UNCHANGED <<sample_file, uploaded_file, interactions, filterVars>>

\* st.rerun(): the script starts again with the widgets as they are
Restart ==
    /\ pc = "rerun"
    /\ pc' = "run"
    /\ UNCHANGED <<pipeline_data, csv_file, sample_file, uploaded_file,
                   submitted, expect, op, interactions, filterVars>>

UploadRows(n) == [k \in 1..n |-> <<Str("x"), Str("y")>>]

\* headers as pandas reads them from a file: plain, with a line break and
\* surrounding blanks, and two that differ only by a line break
UploadHeaders ==
    {<<Country, <<"Project">>>>,
     <<Country, <<" ", "Pipe", "\n", "OD", "\n">>>>,
     <<PipeOD, <<"Pipe", "\n", "OD">>>>}

UploadedFiles ==
    {[name |-> "lines.csv", readable |-> TRUE, frame |-> Frame(h, UploadRows(n))] :
        h \in UploadHeaders, n \in 0..MaxRows}
    \cup
    {[name |-> "lines.xlsx", readable |-> TRUE,
      frame |-> Frame(<<Country, <<"Project">>>>, UploadRows(1))],
     [name |-> "broken.csv", readable |-> FALSE, frame |-> EmptyFrame]}

NumberEntries ==
    {[f \in PositiveFields \cup AngleFields |-> 0],
     [f \in PositiveFields \cup AngleFields |-> 5],
     [f \in PositiveFields \cup AngleFields |-> IF f \in AngleFields THEN -5 ELSE 0]}

Forms ==
    {[country |-> c, project |-> p,
      pipe_od |-> n["pipe_od"], pipe_wall |-> n["pipe_wall"],
      coating_thickness |-> n["coating_thickness"],
      steel_density |-> n["steel_density"],
      coating_density |-> n["coating_density"],
      clad_thickness |-> n["clad_thickness"],
      water_depth |-> n["water_depth"],
      estimated_angle |-> n["estimated_angle"],
      jlt_angle |-> n["jlt_angle"]] :
        c \in {"", "NO"}, p \in {"", "P1"}, n \in NumberEntries}

\* the user drops a file on the uploader
UploadFile ==
    /\ pc = "idle"
    /\ interactions < MaxInteractions
    /\ \E file \in UploadedFiles : uploaded_file' = <<file>>
    /\ pc' = "run"
    /\ submitted' = <<>>
    /\ interactions' = interactions + 1
    /\ UNCHANGED <<pipeline_data, csv_file, sample_file, expect, op, filterVars>>

\* the user removes the file from the uploader, also while the script runs
RemoveFile ==
    /\ uploaded_file # <<>>
    /\ interactions < MaxInteractions
    /\ uploaded_file' = <<>>
    /\ pc' = "run"
    /\ submitted' = <<>>
    /\ interactions' = interactions + 1
    /\ UNCHANGED <<pipeline_data, csv_file, sample_file, expect, op, filterVars>>

\* the user fills the form and clicks "Add Row"
SubmitForm ==
    /\ pc = "idle"
    /\ interactions < MaxInteractions
    /\ \E form \in Forms : submitted' = <<form>>
    /\ pc' = "run"
    /\ interactions' = interactions + 1
    /\ UNCHANGED <<pipeline_data, csv_file, sample_file, uploaded_file, expect,
                   op, filterVars>>

\* any other widget interaction: the script runs again
Interact ==
    /\ pc = "idle"
    /\ interactions < MaxInteractions
    /\ pc' = "run"
    /\ submitted' = <<>>
    /\ interactions' = interactions + 1
    /\ UNCHANGED <<pipeline_data, csv_file, sample_file, uploaded_file, expect,
                   op, filterVars>>

\* a table saved by an earlier session
EarlierFile == to_csv(concat(Frame(DefaultColumns, <<>>),
                             new_data(CHOOSE form \in Forms :
                                          Accepted(form) /\ form.pipe_od = 5)))

\* a sample file whose header has a line break
SampleFile ==
    [lines |-> <<<<Country, <<"Pipe", "\n", "OD">>>>, <<Str("NO"), Num(10)>>>>,
     torn |-> FALSE]

\* the filter controls as the store leaves them
FilterAtRest ==
    /\ df = EmptyFrame
    /\ filter_style = "Multiselect"
    /\ ss_filter = NoFilters
    /\ ss_slider = NoRanges
    /\ ss_date = NoRanges
    /\ filtered_df = <<>>
    /\ controls = NoControls
    /\ last = "first_run"

\* a new session: nothing in st.session_state, the script about to run
InitStore ==
    /\ pipeline_data = <<>>
    /\ csv_file \in {<<>>, <<EarlierFile>>}
    /\ sample_file \in {<<>>, <<SampleFile>>}
    /\ uploaded_file = <<>>
    /\ submitted = <<>>
    /\ pc = "run"
    /\ expect = <<>>
    /\ op = NoOp
    /\ interactions = 0
    /\ FilterAtRest

NextStore ==
    \/ RunScript
    \/ Restart
    \/ UploadFile
    \/ RemoveFile
    \/ SubmitForm
    \/ Interact

\* the step of RunScript as pc shows it: RunScript is enabled whenever
\* pc = "run" and always leaves "run"
ScriptEnds == pc = "run" /\ pc' \in {"idle", "rerun"}

\* Streamlit runs a script that is due, and restarts it after st.rerun()
SpecStore ==
    InitStore /\ [][NextStore]_vars /\ WF_pc(ScriptEnds) /\ WF_vars(Restart)

(***************************************************************************)
(* Properties of the filter pass                                           *)
(***************************************************************************)
Categorical(name) == controls[name] \in {"Multiselect", "Checkboxes"}

\* the row meets the selection of the control rendered for column i
MeetsSelection(row, i) ==
    LET name == df.columns[i].name
        cell == row[i]
    IN
    /\ (Categorical(name) /\ ss_filter[name] # {}) =>
           (~IsNA(cell) /\ ValueOf(cell) \in ss_filter[name])
    /\ controls[name] = "slider" =>
           (/\ ~IsNA(cell)
            /\ ss_slider[name][1] <= ValueOf(cell)
            /\ ValueOf(cell) <= ss_slider[name][2])
    /\ (controls[name] = "date_input" /\ Len(ss_date[name]) = 2) =>
           (/\ ~IsNA(cell)
            /\ ss_date[name][1] <= ValueOf(cell)
            /\ ValueOf(cell) <= ss_date[name][2])

MeetsAllSelections(row) ==
    \A i \in 1..Len(df.columns) : MeetsSelection(row, i)

\* C1: the rows the filter pass returns are exactly the rows of the table
\* that meet every active selection at once (membership for a categorical
\* column with a non-empty selection, the closed interval for a slider or a
\* two-date range); a categorical column with an empty selection restricts
\* nothing.
C1_RetainedRowsMeetAllSelections ==
    /\ \A k \in 1..Len(filtered_df) : MeetsAllSelections(filtered_df[k])
    /\ filtered_df = SelectSeq(df.rows, MeetsAllSelections)

RangeOf(name) ==
    LET present == Unique(df.rows, ColumnIndex(df, name)) IN
    <<SetMin(present), SetMax(present)>>

\* a categorical, a numeric and a date selection narrow the table together
C1_Witness ==
    /\ last = "widget"
    /\ Categorical(Country) /\ ss_filter[Country] # {}
    /\ controls[PipeOD] = "slider" /\ ss_slider[PipeOD] # RangeOf(PipeOD)
    /\ controls[InstallationDate] = "date_input"
    /\ Len(ss_date[InstallationDate]) = 2
    /\ ss_date[InstallationDate] # RangeOf(InstallationDate)
    /\ Len(filtered_df) = 1
    /\ Len(df.rows) = 2

\* every column at its first-encounter default
NoSelections ==
    \A i \in 1..Len(df.columns) :
        LET name == df.columns[i].name IN
        /\ ss_filter[name] = {}
        /\ controls[name] = "slider" => ss_slider[name] = RangeOf(name)
        /\ controls[name] = "date_input" => ss_date[name] = RangeOf(name)

\* C2: with no selections at all the filter pass returns exactly the rows
\* of the table, also when numeric or date columns have missing values.
C2_NoSelectionsReturnTable == NoSelections => filtered_df = df.rows

\* no cell of the table is missing
NoMissing ==
    \A k \in 1..Len(df.rows) : \A i \in 1..Len(df.columns) : ~IsNA(df.rows[k][i])

\* C3: after Clear All, from any prior selection state, every selection is
\* cleared, so the next filter pass returns the table unchanged (stated for
\* tables without missing values, whose rows the default ranges keep).
C3_ClearAllResets ==
    (last = "clear_all" /\ NoMissing) => filtered_df = df.rows

AllCategorical ==
    \A i \in 1..Len(df.columns) : df.columns[i].dtype = "object"

\* C4: on a table whose columns are all categorical, Select All followed by
\* the filter pass returns the table unchanged, rows with missing values
\* included.
C4_SelectAllKeepsTable ==
    (last = "select_all" /\ AllCategorical) => filtered_df = df.rows

\* the value parses as a calendar date
ParsesAsDate(dtype, value) == dtype = "datetime64" \/ value \in DateTexts

\* C8: a column with a date-like name whose present values parse as dates
\* gets a date-range control; one whose values do not parse gets the
\* categorical control.
C8_DateColumnsGetDateRange ==
    \A i \in 1..Len(df.columns) :
        LET col == df.columns[i]
            present == Unique(df.rows, i)
        IN
        (HasDateName(col.name) /\ present # {}) =>
            IF \A v \in present : ParsesAsDate(col.dtype, v)
            THEN controls[col.name] = "date_input"
            ELSE Categorical(col.name)

(***************************************************************************)
(* Properties of the dataset store                                         *)
(***************************************************************************)
\* the table in memory, pd.DataFrame() when the session holds none
InMemory(session) == IF session = <<>> THEN EmptyFrame ELSE session[1]

\* C5: when a save fails during an upload or an add, the failure is
\* reported and the session holds the table it held before the operation;
\* and until a save succeeds every later load returns that table, never a
\* partially written or new one.
C5_FailedSaveKeepsTable ==
    /\ (op.upload = "failed" /\ op.add \in {"none", "rejected"}) =>
           (/\ pipeline_data = op.at_upload
            /\ "Failed to save uploaded data." \in op.messages)
    /\ op.add = "failed" =>
           (/\ pipeline_data = op.at_form
            /\ "Failed to save new record." \in op.messages)
    /\ op.expected # <<>> => op.df = op.expected[1]

\* C6: a form with a blank Country or Project is rejected and leaves the
\* table and the file as they were; a form with both and a successful save
\* makes the table one row longer, the new row last.
C6_BlankRejectedElseAppended ==
    op.form # <<>> =>
        /\ ~Accepted(op.form[1]) =>
               (/\ op.add = "rejected"
                /\ pipeline_data = op.at_form
                /\ csv_file = op.form_csv)
        /\ op.add = "saved" =>
               LET before == InMemory(op.at_form)
                   after == pipeline_data[1]
               IN
               /\ Accepted(op.form[1])
               /\ Len(after.rows) = Len(before.rows) + 1
               /\ \A i \in 1..Len(after.columns) :
                      after.rows[Len(after.rows)][i] =
                          ValueFor(new_data(op.form[1]), after.columns[i])

\* C7: the load that follows a successful replace(T) returns T with its
\* column names normalized, also for a table without rows.
C7_LoadAfterReplace ==
    op.after_replace # <<>> => op.df = op.after_replace[1]

\* the column of a numeric field of the form
ColumnOf(field) ==
    CASE field = "pipe_od" -> DefaultColumns[6]
      [] field = "pipe_wall" -> DefaultColumns[7]
      [] field = "coating_thickness" -> DefaultColumns[8]
      [] field = "steel_density" -> DefaultColumns[9]
      [] field = "coating_density" -> DefaultColumns[10]
      [] field = "clad_thickness" -> DefaultColumns[11]
      [] field = "water_depth" -> DefaultColumns[13]
      [] field = "estimated_angle" -> DefaultColumns[14]
      [] field = "jlt_angle" -> DefaultColumns[15]

\* the cell the appended row holds for a field
StoredFor(field) ==
    LET table == pipeline_data[1]
        i == CHOOSE j \in 1..Len(table.columns) : table.columns[j] = ColumnOf(field)
    IN table.rows[Len(table.rows)][i]

Entered(field) == op.form[1][field]

\* C9 as claimed: every numeric field of the appended row is empty when the
\* entered value is zero or less, and the entered value otherwise.
C9_NonPositiveStoredEmpty ==
    op.add = "saved" =>
        \A field \in PositiveFields \cup AngleFields :
            StoredFor(field) = IF Entered(field) <= 0 THEN Str("")
                               ELSE Num(Entered(field))

\* C9 as amended: the seven fields with a minimum of zero are empty when the
\* entered value is zero or less and the entered value otherwise; the two
\* angle fields are empty only when the entered value is zero, and hold the
\* entered value otherwise, a negative one included.
C9_Amended ==
    op.add = "saved" =>
        /\ \A field \in PositiveFields :
               StoredFor(field) = IF Entered(field) <= 0 THEN Str("")
                                  ELSE Num(Entered(field))
        /\ \A field \in AngleFields :
               StoredFor(field) = IF Entered(field) = 0 THEN Str("")
                                  ELSE Num(Entered(field))

\* a row was appended whose angle was entered negative and whose other
\* numeric fields were left at zero
C9_Witness ==
    /\ op.add = "saved"
    /\ Entered("jlt_angle") < 0
    /\ StoredFor("jlt_angle") = Num(Entered("jlt_angle"))
    /\ Entered("pipe_od") = 0
    /\ StoredFor("pipe_od") = Str("")

\* C10: every run of the script that an interaction starts reaches the end
\* of the script, the filter and render step included, with no further
\* input from the user.
C10_EveryRunCompletes == (pc # "idle") ~> (pc = "idle")

====
